---- MODULE Spec2Model ----
(***************************************************************************)
(* Issue-tracking backend: work items (user_story rows), their parent      *)
(* hierarchy, code allocation, the Done gate, permissions and the          *)
(* aggregated activity log, as implemented by                              *)
(*   app/endpoints/v1/stories_api.py, app/auth/permissions.py and          *)
(*   app/models/*.py.                                                      *)
(* Strings that the code formats or parses (story_pointer) are sequences   *)
(* of one-character strings; SQL NULL / Python None of an integer column   *)
(* is the value None, of a string column the value NoneStr.                *)
(***************************************************************************)
EXTENDS Integers, Sequences, FiniteSets, TLC

VARIABLES stories,        \* table user_story: id -> row
          next_id,        \* its autoincrement counter
          activities,     \* table user_story_activity, in insertion order
          notifications,  \* table notifications, in insertion order
          teams,          \* table teams with team_members
          projects,       \* table project
          inflight,       \* the requests being served concurrently, per process
          last,           \* the request served last and its response
          issued,         \* history: every story_pointer a row ever had
          users,          \* table users: id -> role, email, column view_mode
          mode_requests   \* table mode_switch_requests: the PENDING row of a user

vars == <<stories, next_id, activities, notifications, teams, projects,
          inflight, last, issued, users, mode_requests>>

(***************************************************************************)
(* Bounds of the exploration.                                              *)
(***************************************************************************)
MaxRows == 3       \* rows of user_story
MaxActs == 2       \* rows of user_story_activity
MaxNotifs == 2     \* rows of notifications
NProc == 2         \* concurrent create requests

(***************************************************************************)
(* None / NULL.                                                            *)
(***************************************************************************)
None == -1
NoneStr == "None"
\* None where the value, when there is one, is a string kept as a sequence of
\* characters (title)
NoneSeq == <<NoneStr>>

\* Python truthiness of an Optional[int]
Truthy(x) == x # None /\ x # 0

(***************************************************************************)
(* Character-level helpers for story_pointer.                              *)
(***************************************************************************)
DigitChars == <<"0", "1", "2", "3", "4", "5", "6", "7", "8", "9">>

IsDigit(c) == \E i \in 1..10 : DigitChars[i] = c

DigitVal(c) == (CHOOSE i \in 1..10 : DigitChars[i] = c) - 1

\* str(n) for n >= 0
RECURSIVE IntToStr(_)
IntToStr(n) ==
    IF n < 10 THEN <<DigitChars[n + 1]>>
    ELSE IntToStr(n \div 10) \o <<DigitChars[(n % 10) + 1]>>

\* f"{n:04d}": zero-padded to at least four digits, longer numbers kept whole
RECURSIVE ZeroPad(_, _)
ZeroPad(s, width) == IF Len(s) >= width THEN s ELSE ZeroPad(<<"0">> \o s, width)

Format04d(n) == ZeroPad(IntToStr(n), 4)

\* val.split('-')[-1]: what follows the last '-' (the whole string without one)
RECURSIVE SplitLast(_)
SplitLast(s) ==
    IF \A i \in 1..Len(s) : s[i] # "-" THEN s
    ELSE SplitLast(SubSeq(s, (CHOOSE i \in 1..Len(s) : s[i] = "-" /\ \A j \in 1..(i-1) : s[j] # "-") + 1, Len(s)))

\* int(s); ValueError is the result None
RECURSIVE DigitsToInt(_)
DigitsToInt(s) ==
    IF Len(s) = 0 THEN 0
    ELSE 10 * DigitsToInt(SubSeq(s, 1, Len(s) - 1)) + DigitVal(s[Len(s)])

ParseInt(s) ==
    IF Len(s) > 0 /\ \A i \in 1..Len(s) : IsDigit(s[i]) THEN DigitsToInt(s) ELSE None

\* story_pointer LIKE 'prefix-%'
LikePrefix(ptr, prefix) ==
    /\ Len(ptr) >= Len(prefix) + 1
    /\ SubSeq(ptr, 1, Len(prefix)) = prefix
    /\ ptr[Len(prefix) + 1] = "-"

\* str.lower() on the status values of the model
Lower(s) ==
    CASE s = "Done" -> "done"
      [] s = "DONE" -> "done"
      [] s = "done" -> "done"
      [] s = "To Do" -> "to do"
      [] s = "In Progress" -> "in progress"
      [] OTHER -> s

\* int() of a form field, on the raw values the model submits
FormDigits == <<"1", "2", "3", "4", "5", "6", "7", "8", "9">>

FormInts == ("0" :> 0) @@ [v \in {FormDigits[i] : i \in 1..9} |->
                              CHOOSE i \in 1..9 : FormDigits[i] = v]

\* parse_optional_int of create_user_story
parse_optional_int(val) ==
    IF val = NoneStr THEN None
    ELSE IF val = "" \/ val = " " THEN None
    ELSE IF val \in DOMAIN FormInts THEN FormInts[val] ELSE None

\* clean_int of update_story
clean_int(val) ==
    IF val = NoneStr \/ val = "" THEN None
    ELSE IF val \in DOMAIN FormInts THEN FormInts[val] ELSE None

(***************************************************************************)
(* The users table at the start.                                           *)
(***************************************************************************)
MasterAdminEmail == "admin@jira.local"

InitUsers ==
    (1 :> [role |-> "ADMIN",     email |-> "admin@jira.local", view_mode |-> "DEVELOPER"]) @@
    (2 :> [role |-> "DEVELOPER", email |-> "lead@x",           view_mode |-> "DEVELOPER"]) @@
    (3 :> [role |-> "DEVELOPER", email |-> "dev@x",            view_mode |-> "DEVELOPER"]) @@
    (4 :> [role |-> "TESTER",    email |-> "tester@x",         view_mode |-> "ADMIN"]) @@
    (5 :> [role |-> "ADMIN",     email |-> "admin2@x",         view_mode |-> "DEVELOPER"])

UserIds == DOMAIN InitUsers

is_master_admin(u) == users[u].email = MasterAdminEmail

\* the getter of User.view_mode without the branch for the master admin
view_mode_column(u) == users[u].view_mode

\* the property User.view_mode: the column, but always ADMIN for the master admin
view_mode(u) == IF is_master_admin(u) THEN "ADMIN" ELSE users[u].view_mode

IssueTypes == {"Epic", "Story", "Task", "Bug", "Subtask"}

(***************************************************************************)
(* Messages (app/constants.py and the literals of stories_api.py).         *)
(***************************************************************************)
OK == "ok"
STORY_NOT_FOUND == "Story not found"
PROJECT_NOT_FOUND == "Project not found"
USER_NOT_FOUND == "User not found"
PROJECT_INACTIVE == "The project is inactive."
NO_PERMISSION_EDIT == "No permission to edit this issue."
NO_PERMISSION_CREATE == "No permission to create"
CIRCULAR_DEPENDENCY == "Circular dependency detected."
SELF_PARENT == "Cannot set issue as its own parent."
PARENT_NOT_FOUND == "Parent issue not found"
SUBTASK_NEEDS_PARENT == "Subtask must belong to a Task (parent_issue_id required)."
EPIC_NO_PARENT == "Epics cannot have a parent issue."
WRONG_PARENT_TYPE == "wrong parent type"
NOT_DONE == "Cannot mark as Done: Child issues are not Done"
INTEGRITY_ERROR == "IntegrityError"
HANGS == "does not return"
STORY_DELETED == "Story deleted successfully"
ACCESS_DENIED == "Access denied"
PROJECT_UPDATE_ADMIN_MODE == "Projects can only be updated in Admin mode."
PROJECT_UPDATE_OWNER == "Only the project owner can update this project."
PROJECT_LOCKED == "Project is inactive. You must activate it to make changes."
PROJECT_DELETE_ADMIN_MODE == "Projects can only be deleted in Admin mode."
PROJECT_DELETE_OWNER == "Only the project owner can delete this project."
PROJECT_DELETED == "Project deleted successfully"
OWNER_SWITCH_MODE == "Project owners must switch to Admin mode to create issues in their own projects."
ADMIN_NOT_OWNER == "In Admin mode, you can only create issues in projects you own."

(***************************************************************************)
(* HierarchyValidator.                                                     *)
(***************************************************************************)
\* walk_up without the comparison with current_issue_id
walk_up_blind(st, ancestor, current_issue_id, seen) == OK

\* walk_up as an if instead of a while: only the parent's own parent is compared
walk_up_once(st, ancestor, current_issue_id, seen) ==
    IF st[ancestor].parent_issue_id = current_issue_id /\ Truthy(current_issue_id)
    THEN CIRCULAR_DEPENDENCY ELSE OK

\* the while loop of the cycle check, started at ancestor = parent_story.
\* seen holds the rows the loop has already stood on: standing on one of
\* them again means the loop never ends.
RECURSIVE walk_up(_, _, _, _)
walk_up(st, ancestor, current_issue_id, seen) ==
    IF ~Truthy(st[ancestor].parent_issue_id) THEN OK
    ELSE IF st[ancestor].parent_issue_id = current_issue_id THEN CIRCULAR_DEPENDENCY
    ELSE IF st[ancestor].parent_issue_id \notin DOMAIN st THEN OK
    ELSE IF st[ancestor].parent_issue_id \in seen THEN HANGS
    ELSE walk_up(st, st[ancestor].parent_issue_id, current_issue_id,
                 seen \cup {st[ancestor].parent_issue_id})

\* the checks on the parent's type, after the cycle check
type_check(issue_type, ptype) ==
    IF issue_type = "Epic" THEN EPIC_NO_PARENT
    ELSE IF issue_type = "Story" /\ ptype # "Epic" THEN WRONG_PARENT_TYPE
    ELSE IF issue_type = "Task" /\ ptype # "Story" THEN WRONG_PARENT_TYPE
    ELSE IF issue_type = "Subtask" /\ ptype # "Task" THEN WRONG_PARENT_TYPE
    ELSE IF issue_type = "Bug" /\ ptype \notin {"Story", "Task"} THEN WRONG_PARENT_TYPE
    ELSE OK

\* no_parent_check that lets every type be an orphan
no_parent_check_any(issue_type) == OK

\* the branch "if not parent_id"
no_parent_check(issue_type) ==
    IF issue_type = "Subtask" THEN SUBTASK_NEEDS_PARENT ELSE OK

\* _validate_hierarchy(db, parent_id, issue_type, current_issue_id): the
\* detail of the HTTPException(400) it raises, or OK when it returns.
validate_hierarchy(st, parent_id, issue_type, current_issue_id) ==
    IF ~Truthy(parent_id)
    THEN no_parent_check(issue_type)
    ELSE IF parent_id \notin DOMAIN st THEN PARENT_NOT_FOUND
    ELSE LET cyc == IF Truthy(current_issue_id)
                    THEN IF parent_id = current_issue_id THEN SELF_PARENT
                         ELSE walk_up(st, parent_id, current_issue_id, {parent_id})
                    ELSE OK
         IN IF cyc # OK THEN cyc ELSE type_check(issue_type, st[parent_id].issue_type)

(***************************************************************************)
(* CodeAllocator.                                                          *)
(***************************************************************************)
SetMax(S) == IF S = {} THEN 0 ELSE CHOOSE m \in S : \A x \in S : x <= m

\* the number of rows with the prefix instead of the largest suffix
max_num_count(st, prefix_val) ==
    Cardinality({j \in DOMAIN st : LikePrefix(st[j].story_pointer, prefix_val)})

\* the loop over stories_with_prefix: max of the parsable suffixes, from 0
max_num(st, prefix_val) ==
    SetMax({n \in {ParseInt(SplitLast(st[i].story_pointer)) :
                     i \in {j \in DOMAIN st : LikePrefix(st[j].story_pointer, prefix_val)}} :
            n > 0})

\* name_raw[:2].upper()
UpperChar(c) ==
    CASE c = "e" -> "E" [] c = "n" -> "N" [] c = "g" -> "G" [] c = "o" -> "O"
      [] c = "p" -> "P" [] c = "s" -> "S" [] OTHER -> c

Upper2(name) == [i \in 1..(IF Len(name) < 2 THEN Len(name) ELSE 2) |-> UpperChar(name[i])]

\* _generate_story_code(db, project_id) for an existing project
generate_story_code(st, pj, project_id) ==
    LET prefix_raw == pj[project_id].project_prefix
        prefix_val == IF Len(prefix_raw) > 0 THEN prefix_raw ELSE Upper2(pj[project_id].name)
    IN prefix_val \o <<"-">> \o Format04d(max_num(st, prefix_val) + 1)

(***************************************************************************)
(* AccessControl (app/auth/permissions.py).                                *)
(***************************************************************************)
\* can_create_issue without the comparison of team.project_id with project_id
can_create_issue_any_project(d, user, project_id, team_id) ==
    IF project_id \notin DOMAIN d.projects \/ ~d.projects[project_id].is_active THEN FALSE
    ELSE IF users[user].role = "ADMIN" THEN TRUE
    ELSE IF ~Truthy(team_id) THEN FALSE
    ELSE IF team_id \notin DOMAIN d.teams THEN FALSE
    ELSE d.teams[team_id].lead_id = user

can_create_issue(d, user, project_id, team_id) ==
    IF project_id \notin DOMAIN d.projects \/ ~d.projects[project_id].is_active THEN FALSE
    ELSE IF users[user].role = "ADMIN" THEN TRUE
    ELSE IF ~Truthy(team_id) THEN FALSE
    ELSE IF team_id \notin DOMAIN d.teams THEN FALSE
    ELSE IF d.teams[team_id].lead_id = user
         THEN d.teams[team_id].project_id = project_id
         ELSE FALSE

\* can_update_issue without the assignee rule
can_update_issue_lead_only(d, user, story) ==
    IF ~d.projects[story.project_id].is_active THEN FALSE
    ELSE IF users[user].role = "ADMIN" THEN TRUE
    ELSE Truthy(story.team_id) /\ story.team_id \in DOMAIN d.teams
            /\ d.teams[story.team_id].lead_id = user

can_update_issue(d, user, story) ==
    IF ~d.projects[story.project_id].is_active THEN FALSE
    ELSE IF users[user].role = "ADMIN" THEN TRUE
    ELSE IF Truthy(story.team_id) /\ story.team_id \in DOMAIN d.teams
            /\ d.teams[story.team_id].lead_id = user THEN TRUE
    ELSE story.assignee_id = user

can_delete_issue(d, user, story) ==
    IF ~d.projects[story.project_id].is_active THEN FALSE
    ELSE IF users[user].role = "ADMIN" THEN TRUE
    ELSE Truthy(story.team_id) /\ story.team_id \in DOMAIN d.teams
            /\ d.teams[story.team_id].lead_id = user

\* can_view_issue without the rule "assigned to any issue in the project"
can_view_issue_own(d, user, story) ==
    IF users[user].role = "ADMIN" THEN TRUE
    ELSE IF \E t \in DOMAIN d.teams :
               d.teams[t].project_id = story.project_id /\ d.teams[t].lead_id = user THEN TRUE
    ELSE IF Truthy(story.team_id) /\ story.team_id \in DOMAIN d.teams
            /\ user \in d.teams[story.team_id].members THEN TRUE
    ELSE story.assignee_id = user

\* can_view_issue without the ADMIN shortcut
can_view_issue_related(d, user, story) ==
    IF \E t \in DOMAIN d.teams :
               d.teams[t].project_id = story.project_id /\ d.teams[t].lead_id = user THEN TRUE
    ELSE IF Truthy(story.team_id) /\ story.team_id \in DOMAIN d.teams
            /\ user \in d.teams[story.team_id].members THEN TRUE
    ELSE IF story.assignee_id = user THEN TRUE
    ELSE \E i \in DOMAIN d.stories :
            d.stories[i].project_id = story.project_id /\ d.stories[i].assignee_id = user

can_view_issue(d, user, story) ==
    IF users[user].role = "ADMIN" THEN TRUE
    ELSE IF \E t \in DOMAIN d.teams :
               d.teams[t].project_id = story.project_id /\ d.teams[t].lead_id = user THEN TRUE
    ELSE IF Truthy(story.team_id) /\ story.team_id \in DOMAIN d.teams
            /\ user \in d.teams[story.team_id].members THEN TRUE
    ELSE IF story.assignee_id = user THEN TRUE
    ELSE \E i \in DOMAIN d.stories :
            d.stories[i].project_id = story.project_id /\ d.stories[i].assignee_id = user

(***************************************************************************)
(* The store and the rows.                                                 *)
(***************************************************************************)
\* the database as the handlers see it
db == [stories |-> stories, next_id |-> next_id, activities |-> activities,
       notifications |-> notifications, teams |-> teams, projects |-> projects,
       users |-> users, mode_requests |-> mode_requests]

\* a row of user_story
Row(project_id, team_id, assignee_id, issue_type, parent_issue_id, status, story_pointer) ==
    [project_id |-> project_id, team_id |-> team_id, assignee_id |-> assignee_id,
     issue_type |-> issue_type, parent_issue_id |-> parent_issue_id,
     status |-> status, story_pointer |-> story_pointer, title |-> <<"T">>]

\* no row
NoRow == Row(0, None, None, NoneStr, None, NoneStr, <<>>)

Resp(status, detail) == [status |-> status, detail |-> detail, pending |-> 0]

\* story.children: the rows whose parent_issue_id is the row's id
children(st, id) == {c \in DOMAIN st : st[c].parent_issue_id = id}

\* _log_activity_aggregated without the early return on an empty changes_dict
log_activity_always(acts, story_id, user_id, action, change_count) ==
    Append(acts, [story_id |-> story_id, user_id |-> user_id,
                  action |-> action, change_count |-> change_count])

\* _log_activity_aggregated(db, story_id, user_id, action, changes_dict)
log_activity_aggregated(acts, story_id, user_id, action, change_count) ==
    IF change_count = 0 /\ action = "UPDATED" THEN acts
    ELSE Append(acts, [story_id |-> story_id, user_id |-> user_id,
                       action |-> action, change_count |-> change_count])

\* create_notification(db, user_id, title, message)
create_notification(ns, user_id, title) ==
    Append(ns, [user_id |-> user_id, title |-> title])

\* foreign keys and the unique index of user_story, checked at flush
fk_ok(d, row) ==
    /\ row.parent_issue_id = None \/ row.parent_issue_id \in DOMAIN d.stories
    /\ row.team_id = None \/ row.team_id \in DOMAIN d.teams
    /\ row.assignee_id = None \/ row.assignee_id \in UserIds
    /\ row.project_id \in DOMAIN d.projects

\* user_story without the unique index on story_pointer
unique_ok_absent(d, row) == TRUE

unique_ok(d, row) ==
    \A i \in DOMAIN d.stories : d.stories[i].story_pointer # row.story_pointer

(***************************************************************************)
(* createIssue: POST /user-stories.                                        *)
(***************************************************************************)
\* app.utils.common.get_object_or_404: the row of the id, or 404 with the
\* message (here: whether the row exists)
get_object_or_404(table_ids, id) == id \in table_ids

\* app.utils.common.check_project_active: 403 "The project is inactive."
\* unless the project is active (here: whether it raises)
check_project_active(is_active) == ~is_active

led_teams(d, user) == {t \in DOMAIN d.teams : d.teams[t].lead_id = user}

\* create_user_story up to and including _generate_story_code: everything
\* the handler reads and decides before it writes.  The result is either
\* the error response, or the row to insert.
create_read(d, req) ==
    LET parsed_team_id == parse_optional_int(req.team_id)
        parsed_parent_issue_id == parse_optional_int(req.parent_issue_id)
        asked_assignee_id == parse_optional_int(req.assignee_id)
        is_dev == users[req.user].role = "DEVELOPER"
        is_team_lead == Truthy(parsed_team_id) /\ parsed_team_id \in led_teams(d, req.user)
        is_project_lead == \E t \in led_teams(d, req.user) : d.teams[t].project_id = req.project_id
        self_assign == is_dev /\ ~(is_team_lead \/ is_project_lead)
        parsed_assignee_id == IF self_assign THEN req.user ELSE asked_assignee_id
        row == [project_id |-> req.project_id,
                team_id |-> parsed_team_id,
                assignee_id |-> parsed_assignee_id,
                issue_type |-> req.issue_type,
                parent_issue_id |-> parsed_parent_issue_id,
                status |-> req.status,
                story_pointer |-> generate_story_code(d.stories, d.projects, req.project_id),
                title |-> <<"T">>]
        is_owner == d.projects[req.project_id].owner_id = req.user
        msg == IF view_mode(req.user) = "DEVELOPER" /\ is_owner THEN OWNER_SWITCH_MODE
               ELSE IF view_mode(req.user) = "ADMIN" /\ ~is_owner THEN ADMIN_NOT_OWNER
               ELSE NO_PERMISSION_CREATE
        hier == validate_hierarchy(d.stories, parsed_parent_issue_id, req.issue_type, None)
    IN  IF ~self_assign /\ Truthy(asked_assignee_id) /\ ~get_object_or_404(UserIds, asked_assignee_id)
        THEN [resp |-> Resp(404, USER_NOT_FOUND), row |-> NoRow]
        ELSE IF ~get_object_or_404(DOMAIN d.projects, req.project_id)
        THEN [resp |-> Resp(404, PROJECT_NOT_FOUND), row |-> NoRow]
        ELSE IF check_project_active(d.projects[req.project_id].is_active)
        THEN [resp |-> Resp(403, PROJECT_INACTIVE), row |-> NoRow]
        ELSE IF ~can_create_issue(d, req.user, req.project_id, parsed_team_id)
        THEN [resp |-> Resp(403, msg), row |-> NoRow]
        ELSE IF hier # OK
        THEN [resp |-> Resp(400, hier), row |-> NoRow]
        ELSE [resp |-> Resp(200, OK), row |-> row]

\* the try block of create_user_story: member auto-sync, INSERT, the CREATED
\* activity, the notification and the commit, against the store as it is
\* when the write happens.  An exception rolls everything back (500).
create_write(d, user, row) ==
    LET sync == Truthy(row.assignee_id) /\ Truthy(row.team_id)
        new_id == d.next_id
        teams1 == IF sync /\ row.team_id \in DOMAIN d.teams
                  THEN [d.teams EXCEPT ![row.team_id].members = @ \cup {row.assignee_id}]
                  ELSE d.teams
        acts1 == log_activity_aggregated(d.activities, new_id, user, "CREATED", 1)
        ns1 == IF Truthy(row.assignee_id)
               THEN create_notification(d.notifications, row.assignee_id, "Issue Assigned")
               ELSE d.notifications
    IN  IF sync /\ ~get_object_or_404(DOMAIN d.teams, row.team_id)
        THEN [resp |-> Resp(500, "Team not found"), db |-> d, id |-> None]
        ELSE IF ~fk_ok(d, row) \/ ~unique_ok(d, row)
        THEN [resp |-> Resp(500, INTEGRITY_ERROR), db |-> d, id |-> None]
        ELSE [resp |-> Resp(200, OK),
              db |-> [d EXCEPT !.stories = new_id :> row @@ d.stories,
                               !.next_id = new_id + 1,
                               !.teams = teams1,
                               !.activities = acts1,
                               !.notifications = ns1],
              id |-> new_id]

\* create_user_story(...) run from start to end on one store
create_user_story(d, req) ==
    LET plan == create_read(d, req)
    IN  IF plan.resp.status # 200
        THEN [resp |-> plan.resp, db |-> d, id |-> None]
        ELSE create_write(d, req.user, plan.row)

(***************************************************************************)
(* updateIssue: PUT /user-stories/{id}.                                    *)
(***************************************************************************)
\* str(v) if v is not None else ""
StrOfStr(v) == IF v = NoneStr THEN "" ELSE v

\* pending_children comparing with "Done" as written, without lower()
pending_children_exact(st, id) ==
    {c \in children(st, id) : st[c].status # "Done"}

\* (child.status or "").lower() != "done"
pending_children(st, id) ==
    {c \in children(st, id) : Lower(StrOfStr(st[c].status)) # "done"}

\* a session whose changes were flushed and committed when it is closed
close_committing(committed, session) == session

\* get_db: the session is closed when the request ends; what the handler
\* changed in the session and did not commit is discarded
close(committed, session) == committed

\* update_story(id, ...): a form field that was not submitted is NoneStr
update_story(d, req) ==
    IF ~get_object_or_404(DOMAIN d.stories, req.id)
    THEN [resp |-> Resp(404, STORY_NOT_FOUND), db |-> d]
    ELSE
    LET story == d.stories[req.id]
        is_dev == users[req.user].role = "DEVELOPER"
        has_parent == req.parent_issue_id # NoneStr
        new_parent_id == clean_int(req.parent_issue_id)
        has_status == req.status # NoneStr
        has_type == req.issue_type # NoneStr
        has_assignee == req.assignee_id # NoneStr /\ ~is_dev
        has_title == req.title # NoneSeq
        new_assignee_id == clean_int(req.assignee_id)
        \* 0. parent
        parent_changes == has_parent /\ new_parent_id # story.parent_issue_id
        hier == IF parent_changes
                THEN validate_hierarchy(d.stories, new_parent_id, story.issue_type, req.id)
                ELSE OK
        \* 1. Done gate
        gated == has_status /\ req.status # story.status /\ Lower(req.status) = "done"
        pending == IF gated THEN Cardinality(pending_children(d.stories, req.id)) ELSE 0
        \* 2. the loop over update_data
        assignee_changes == has_assignee /\ new_assignee_id # story.assignee_id
        status_changes == has_status /\ StrOfStr(story.status) # StrOfStr(req.status)
        type_changes == has_type /\ StrOfStr(story.issue_type) # StrOfStr(req.issue_type)
        title_changes == has_title /\ story.title # req.title
        assignee1 == IF assignee_changes THEN new_assignee_id ELSE story.assignee_id
        row == [story EXCEPT
                  !.parent_issue_id = IF parent_changes THEN new_parent_id ELSE @,
                  !.assignee_id = assignee1,
                  !.status = IF status_changes THEN req.status ELSE @,
                  !.issue_type = IF type_changes THEN req.issue_type ELSE @,
                  !.title = IF title_changes THEN req.title ELSE @]
        ns1 == IF assignee_changes /\ Truthy(assignee1)
               THEN create_notification(d.notifications, assignee1, "Issue Assigned")
               ELSE d.notifications
        ns2 == IF status_changes /\ Truthy(assignee1)
               THEN create_notification(ns1, assignee1, "Status Updated")
               ELSE ns1
        change_count == (IF parent_changes THEN 1 ELSE 0) + (IF assignee_changes THEN 1 ELSE 0)
                        + (IF status_changes THEN 1 ELSE 0) + (IF type_changes THEN 1 ELSE 0)
                        + (IF title_changes THEN 1 ELSE 0)
        \* the session after step 0: story.parent_issue_id = new_parent_id
        reparented == [d EXCEPT !.stories[req.id].parent_issue_id =
                                   IF parent_changes THEN new_parent_id ELSE @]
    IN  IF check_project_active(d.projects[story.project_id].is_active)
        THEN [resp |-> Resp(403, PROJECT_INACTIVE), db |-> d]
        ELSE IF ~can_update_issue(d, req.user, story)
        THEN [resp |-> Resp(403, NO_PERMISSION_EDIT), db |-> d]
        ELSE IF hier # OK
        THEN [resp |-> Resp(400, hier), db |-> d]
        ELSE IF pending > 0
        THEN [resp |-> [status |-> 400, detail |-> NOT_DONE, pending |-> pending],
              db |-> close(d, reparented)]
        ELSE IF ~fk_ok(d, row)
        THEN [resp |-> Resp(500, INTEGRITY_ERROR), db |-> close(d, reparented)]
        ELSE [resp |-> Resp(200, OK),
              db |-> [d EXCEPT !.stories[req.id] = row,
                               !.notifications = ns2,
                               !.activities = log_activity_aggregated(d.activities, req.id,
                                                  req.user, "UPDATED", change_count)]]

\* update_story up to the first commit, on the store as it is read: the
\* error response, or what the session holds: the row as read (old), the row
\* with the new values (row), the notifications to create (each one commits)
\* and the activity to log
update_read(d, req) ==
    LET r == update_story(d, req)
        ok == r.resp.status = 200
    IN [resp |-> r.resp, user |-> req.user, id |-> req.id,
        old |-> IF ok THEN d.stories[req.id] ELSE NoRow,
        row |-> IF ok THEN r.db.stories[req.id] ELSE NoRow,
        notes |-> SubSeq(r.db.notifications, Len(d.notifications) + 1, Len(r.db.notifications)),
        acts |-> SubSeq(r.db.activities, Len(d.activities) + 1, Len(r.db.activities))]

\* the attributes that are dirty when the k-th commit of the handler runs:
\* setattr ran for parent_issue_id, title and assignee_id before the first
\* notification, for status before the "Status Updated" notification, and
\* for every changed field before the final commit
dirty_fields(plan, k) ==
    IF k > Len(plan.notes) THEN DOMAIN plan.row
    ELSE IF plan.notes[k].title = "Status Updated"
    THEN {"parent_issue_id", "title", "assignee_id", "status"}
    ELSE {"parent_issue_id", "title", "assignee_id"}

\* the k-th commit of update_story on the store as it is now: the UPDATE
\* sets the dirty columns that changed; commits 1..Len(notes) come from
\* create_notification, the last one follows _log_activity_aggregated
update_commit(d, plan, k) ==
    LET cur == d.stories[plan.id]
        F == dirty_fields(plan, k)
        row == [f \in DOMAIN cur |->
                  IF f \in F /\ plan.old[f] # plan.row[f] THEN plan.row[f] ELSE cur[f]]
        final == k > Len(plan.notes)
    IN  IF plan.id \notin DOMAIN d.stories \/ ~fk_ok(d, row)
        THEN [resp |-> Resp(500, INTEGRITY_ERROR), db |-> d]
        ELSE [resp |-> Resp(200, OK),
              db |-> [d EXCEPT !.stories[plan.id] = row,
                               !.notifications = IF final THEN @ ELSE Append(@, plan.notes[k]),
                               !.activities = IF final THEN @ \o plan.acts ELSE @]]

\* create_user_story when notify_issue_assigned raises (the INSERT into
\* notifications or its commit fails): the call is inside the try block, the
\* except branch rolls back and answers 500
create_user_story_notify_raises(d, req) ==
    LET r == create_user_story(d, req)
    IN  IF r.resp.status = 200 /\ Len(r.db.notifications) > Len(d.notifications)
        THEN [resp |-> Resp(500, "Error creating user story"), db |-> close(d, r.db), id |-> None]
        ELSE r

\* update_story when its k-th create_notification raises: the loop is outside
\* the try block, the exception ends the request with 500; what the
\* notifications before it committed stays, the rest of the session is lost
update_story_notify_raises(d, req, k) ==
    LET plan == update_read(d, req)
        before == IF k = 1 THEN d ELSE update_commit(d, plan, 1).db
    IN  IF plan.resp.status # 200 \/ k > Len(plan.notes)
        THEN update_story(d, req)
        ELSE [resp |-> Resp(500, "Internal Server Error"),
              db |-> close(before, update_commit(before, plan, k).db)]

(***************************************************************************)
(* deleteIssue: DELETE /user-stories/{id}.                                 *)
(***************************************************************************)
\* db.delete(story); db.commit().  The relationships children and
\* activities carry no delete cascade, so the flush first sets the foreign
\* keys of the loaded children and activities to NULL:
\* user_story_activity.story_id is NOT NULL, which makes the flush fail.
delete_user_story(d, req) ==
    IF ~get_object_or_404(DOMAIN d.stories, req.id)
    THEN [resp |-> Resp(404, STORY_NOT_FOUND), db |-> d]
    ELSE IF check_project_active(d.projects[d.stories[req.id].project_id].is_active)
    THEN [resp |-> Resp(403, PROJECT_INACTIVE), db |-> d]
    ELSE IF \E i \in 1..Len(d.activities) : d.activities[i].story_id = req.id
    THEN [resp |-> Resp(500, INTEGRITY_ERROR), db |-> d]
    ELSE [resp |-> Resp(200, STORY_DELETED),
          db |-> [d EXCEPT !.stories =
                    [i \in DOMAIN d.stories \ {req.id} |->
                        IF d.stories[i].parent_issue_id = req.id
                        THEN [d.stories[i] EXCEPT !.parent_issue_id = None]
                        ELSE d.stories[i]]]]

(***************************************************************************)
(* getIssue: GET /user-stories/{id}.                                       *)
(***************************************************************************)
get_story_by_id(d, req) ==
    IF ~get_object_or_404(DOMAIN d.stories, req.id)
    THEN [resp |-> Resp(404, STORY_NOT_FOUND), db |-> d]
    ELSE IF ~can_view_issue(d, req.user, d.stories[req.id])
    THEN [resp |-> Resp(403, ACCESS_DENIED), db |-> d]
    ELSE [resp |-> Resp(200, OK), db |-> d]

(***************************************************************************)
(* listIssues: GET /user-stories/project/{project_id}.                     *)
(***************************************************************************)
\* get_stories_by_project(project_id): the ids of the rows it returns.  The
\* 404 for a missing project is raised inside the try block and leaves as 500;
\* the branch for the ADMIN view is `pass`.
get_stories_by_project(d, req) ==
    LET rows == {i \in DOMAIN d.stories : d.stories[i].project_id = req.project_id}
    IN  IF is_master_admin(req.user)
        THEN [resp |-> Resp(200, OK), items |-> rows]
        ELSE IF req.project_id \notin DOMAIN d.projects
        THEN [resp |-> Resp(500, "Internal Server Error"), items |-> {}]
        ELSE [resp |-> Resp(200, OK), items |-> rows]

(***************************************************************************)
(* View mode: POST /auth/switch-mode, /auth/login, /mode-switch/request    *)
(* and /mode-switch/approve/{request_id}.  mode_requests holds, per user,  *)
(* the request the user made last.                                         *)
(***************************************************************************)
NoModeRequest == [requested_mode |-> NoneStr, status |-> "NONE"]

\* what the identity handlers answer and leave in the tables
ModeResult(status, detail, us, mr, ns) ==
    [resp |-> Resp(status, detail), users |-> us, mode_requests |-> mr, notifications |-> ns]

\* switch_mode(mode)
switch_mode(d, req) ==
    IF is_master_admin(req.user)
    THEN ModeResult(400, "Master Admin cannot switch modes", d.users, d.mode_requests, d.notifications)
    ELSE IF req.mode \notin {"ADMIN", "DEVELOPER"}
    THEN ModeResult(400, "Invalid mode", d.users, d.mode_requests, d.notifications)
    ELSE ModeResult(200, OK, [d.users EXCEPT ![req.user].view_mode = req.mode],
                    d.mode_requests, d.notifications)

\* perform_login(email, password) with valid credentials
perform_login(d, req) ==
    IF is_master_admin(req.user)
    THEN ModeResult(200, OK, d.users, d.mode_requests, d.notifications)
    ELSE ModeResult(200, OK,
                    [d.users EXCEPT ![req.user].view_mode =
                        IF d.users[req.user].role = "ADMIN" THEN "ADMIN" ELSE "DEVELOPER"],
                    d.mode_requests, d.notifications)

\* create_switch_request(requested_mode, reason)
create_switch_request(d, req) ==
    IF is_master_admin(req.user)
    THEN ModeResult(400, "Master Admin does not need to request mode switches",
                    d.users, d.mode_requests, d.notifications)
    ELSE IF req.mode \notin {"ADMIN", "DEVELOPER"}
    THEN ModeResult(400, "Invalid mode requested", d.users, d.mode_requests, d.notifications)
    ELSE IF d.mode_requests[req.user].status = "PENDING"
    THEN ModeResult(400, "You already have a pending switch request",
                    d.users, d.mode_requests, d.notifications)
    ELSE ModeResult(200, OK, d.users,
                    [d.mode_requests EXCEPT ![req.user] =
                        [requested_mode |-> req.mode, status |-> "PENDING"]],
                    IF \E m \in UserIds : d.users[m].email = MasterAdminEmail
                    THEN create_notification(d.notifications,
                            CHOOSE m \in UserIds : d.users[m].email = MasterAdminEmail,
                            "New Mode Switch Request")
                    ELSE d.notifications)

\* approve_request(request_id): req.target is the user whose request it is
approve_request(d, req) ==
    LET request == d.mode_requests[req.target]
    IN  IF ~is_master_admin(req.user)
        THEN ModeResult(403, "Only Master Admin can approve requests",
                        d.users, d.mode_requests, d.notifications)
        ELSE IF request.status = "NONE"
        THEN ModeResult(404, "Request not found", d.users, d.mode_requests, d.notifications)
        ELSE IF request.status # "PENDING"
        THEN ModeResult(400, "Request is already APPROVED",
                        d.users, d.mode_requests, d.notifications)
        ELSE ModeResult(200, OK,
                        [d.users EXCEPT ![req.target].role = request.requested_mode,
                                        ![req.target].view_mode = request.requested_mode],
                        [d.mode_requests EXCEPT ![req.target].status = "APPROVED"],
                        create_notification(d.notifications, req.target, "Mode Switch Approved"))

(***************************************************************************)
(* Projects: PUT /projects/{id} and DELETE /projects/{id}.                 *)
(***************************************************************************)
\* the value of an Optional[bool] form field
parse_bool(raw) ==
    IF raw = NoneStr THEN NoneStr
    ELSE IF raw \in {"true", "True", "1", "on", "yes"} THEN "True" ELSE "False"

\* str.upper() of a sequence of characters
Upper(str) == [i \in 1..Len(str) |-> UpperChar(str[i])]

\* update_project(id, project_prefix, is_active)
update_project(d, req) ==
    IF ~get_object_or_404(DOMAIN d.projects, req.id)
    THEN [resp |-> Resp(404, PROJECT_NOT_FOUND), db |-> d]
    ELSE
    LET project == d.projects[req.id]
        is_active == parse_bool(req.is_active)
    IN  IF ~is_master_admin(req.user) /\ view_mode(req.user) # "ADMIN"
        THEN [resp |-> Resp(403, PROJECT_UPDATE_ADMIN_MODE), db |-> d]
        ELSE IF ~is_master_admin(req.user) /\ project.owner_id # req.user
        THEN [resp |-> Resp(403, PROJECT_UPDATE_OWNER), db |-> d]
        ELSE IF ~project.is_active /\ is_active # "True"
        THEN [resp |-> Resp(403, PROJECT_LOCKED), db |-> d]
        ELSE [resp |-> Resp(200, OK),
              db |-> [d EXCEPT !.projects[req.id] =
                        [project EXCEPT
                           !.project_prefix = IF req.project_prefix # NoneSeq
                                              THEN Upper(req.project_prefix) ELSE @,
                           !.is_active = IF is_active # NoneStr
                                         THEN is_active = "True" ELSE @]]]

\* the rows that DELETE FROM user_story removes with the rows S: the foreign
\* key parent_issue_id is ON DELETE CASCADE
RECURSIVE cascade_rows(_, _)
cascade_rows(st, S) ==
    LET more == {c \in DOMAIN st : st[c].parent_issue_id \in S} \ S
    IN IF more = {} THEN S ELSE cascade_rows(st, S \cup more)

\* delete_project(id): the bulk delete of the project's stories (the database
\* cascades to their descendants and to the activities of the deleted rows),
\* then db.delete(project), which deletes the project's teams
delete_project(d, req) ==
    IF ~get_object_or_404(DOMAIN d.projects, req.id)
    THEN [resp |-> Resp(404, PROJECT_NOT_FOUND), db |-> d]
    ELSE
    LET project == d.projects[req.id]
        gone == cascade_rows(d.stories, {i \in DOMAIN d.stories : d.stories[i].project_id = req.id})
        gone_teams == {t \in DOMAIN d.teams : d.teams[t].project_id = req.id}
    IN  IF ~is_master_admin(req.user) /\ view_mode(req.user) # "ADMIN"
        THEN [resp |-> Resp(403, PROJECT_DELETE_ADMIN_MODE), db |-> d]
        ELSE IF ~is_master_admin(req.user) /\ project.owner_id # req.user
        THEN [resp |-> Resp(403, PROJECT_DELETE_OWNER), db |-> d]
        ELSE [resp |-> Resp(200, PROJECT_DELETED),
              db |-> [d EXCEPT
                 !.stories = [i \in DOMAIN d.stories \ gone |->
                                IF d.stories[i].team_id \in gone_teams
                                THEN [d.stories[i] EXCEPT !.team_id = None]
                                ELSE d.stories[i]],
                 !.activities = SelectSeq(d.activities, LAMBDA a : a.story_id \notin gone),
                 !.teams = [t \in DOMAIN d.teams \ gone_teams |-> d.teams[t]],
                 !.projects = [q \in DOMAIN d.projects \ {req.id} |-> d.projects[q]]]]

(***************************************************************************)
(* Actions.                                                                *)
(***************************************************************************)
Commit(d) ==
    /\ stories' = d.stories
    /\ next_id' = d.next_id
    /\ activities' = d.activities
    /\ notifications' = d.notifications
    /\ teams' = d.teams
    /\ projects' = d.projects
    /\ issued' = issued \cup {d.stories[i].story_pointer : i \in DOMAIN d.stories}
    /\ users' = d.users
    /\ mode_requests' = d.mode_requests

WithinBounds(d) ==
    /\ Cardinality(DOMAIN d.stories) <= MaxRows
    /\ Len(d.activities) <= MaxActs
    /\ Len(d.notifications) <= MaxNotifs

\* the request served last and its response
Last(op, resp) ==
    [op |-> op, status |-> resp.status, detail |-> resp.detail, pending |-> resp.pending]

Idle == \A p \in DOMAIN inflight : inflight[p].pc = "idle"

\* one createIssue request, served from start to end
CreateIssue(req) ==
    /\ Idle
    /\ LET r == create_user_story(db, req)
       IN /\ WithinBounds(r.db)
          /\ Commit(r.db)
          /\ last' = Last("create", r.resp)
    /\ UNCHANGED inflight

\* one updateIssue request, served from start to end
UpdateIssue(req) ==
    /\ Idle
    /\ LET r == update_story(db, req)
       IN /\ WithinBounds(r.db)
          /\ Commit(r.db)
          /\ last' = Last("update", r.resp)
    /\ UNCHANGED inflight

\* one createIssue request during which the notification cannot be stored
CreateIssueNotifyRaises(req) ==
    /\ Idle
    /\ LET r == create_user_story_notify_raises(db, req)
       IN /\ WithinBounds(r.db)
          /\ Commit(r.db)
          /\ last' = Last("create", r.resp)
    /\ UNCHANGED inflight

\* one updateIssue request during which the k-th notification cannot be stored
UpdateIssueNotifyRaises(req, k) ==
    /\ Idle
    /\ LET r == update_story_notify_raises(db, req, k)
       IN /\ WithinBounds(r.db)
          /\ Commit(r.db)
          /\ last' = Last("update", r.resp)
    /\ UNCHANGED inflight

\* one deleteIssue request, served from start to end
DeleteIssue(req) ==
    /\ Idle
    /\ LET r == delete_user_story(db, req)
       IN /\ Commit(r.db)
          /\ last' = Last("delete", r.resp)
    /\ UNCHANGED inflight

GetIssue(req) ==
    /\ Idle
    /\ LET r == get_story_by_id(db, req)
       IN /\ Commit(r.db)
          /\ last' = Last("get", r.resp)
    /\ UNCHANGED inflight

\* a request to one of the identity handlers, served from start to end
ModeStep(op, r) ==
    /\ Idle
    /\ Len(r.notifications) <= MaxNotifs
    /\ Commit([db EXCEPT !.users = r.users, !.mode_requests = r.mode_requests,
                         !.notifications = r.notifications])
    /\ last' = Last(op, r.resp)
    /\ UNCHANGED inflight

ListIssues(req) ==
    /\ Idle
    /\ last' = Last("list", get_stories_by_project(db, req).resp)
    /\ Commit(db)
    /\ UNCHANGED inflight

UpdateProject(req) ==
    /\ Idle
    /\ LET r == update_project(db, req)
       IN /\ Commit(r.db)
          /\ last' = Last("update_project", r.resp)
    /\ UNCHANGED inflight

DeleteProject(req) ==
    /\ Idle
    /\ LET r == delete_project(db, req)
       IN /\ Commit(r.db)
          /\ last' = Last("delete_project", r.resp)
    /\ UNCHANGED inflight

\* a createIssue request served concurrently with others, first half: process
\* p runs the handler up to _generate_story_code on the store as it is now
CreateRead(p, req) ==
    /\ inflight[p].pc = "idle"
    /\ LET plan == create_read(db, req)
       IN /\ inflight' = [inflight EXCEPT ![p] =
                IF plan.resp.status = 200
                THEN [pc |-> "read", user |-> req.user, row |-> plan.row, status |-> 0]
                ELSE [pc |-> "idle", user |-> req.user, row |-> NoRow,
                      status |-> plan.resp.status]]
          /\ last' = IF plan.resp.status = 200 THEN last ELSE Last("create", plan.resp)
    /\ UNCHANGED <<stories, next_id, activities, notifications, teams, projects, issued,
                   users, mode_requests>>

\* second half: the try block of process p, on the store as it is now
CreateWrite(p) ==
    /\ inflight[p].pc = "read"
    /\ LET r == create_write(db, inflight[p].user, inflight[p].row)
       IN /\ WithinBounds(r.db)
          /\ Commit(r.db)
          /\ last' = Last("create", r.resp)
          /\ inflight' = [inflight EXCEPT ![p] =
                [pc |-> "idle", user |-> @.user, row |-> NoRow, status |-> r.resp.status]]

\* an updateIssue request served concurrently with others, first part:
\* process p runs the handler on the store as it is now, up to its first
\* commit.  A walk that never ends leaves the process in the loop.
UpdateRead(p, req) ==
    /\ inflight[p].pc = "idle"
    /\ LET plan == update_read(db, req)
       IN /\ inflight' = [inflight EXCEPT ![p] =
                IF plan.resp.detail = HANGS
                THEN [pc |-> "loop", user |-> req.user, row |-> NoRow, status |-> 0]
                ELSE IF plan.resp.status = 200
                THEN [pc |-> "update", user |-> req.user, row |-> NoRow, status |-> 0,
                      plan |-> plan, k |-> 1]
                ELSE [pc |-> "idle", user |-> req.user, row |-> NoRow,
                      status |-> plan.resp.status]]
          /\ last' = IF plan.resp.status = 200 \/ plan.resp.detail = HANGS
                     THEN last ELSE Last("update", plan.resp)
    /\ UNCHANGED <<stories, next_id, activities, notifications, teams, projects, issued,
                   users, mode_requests>>

\* the next commit of process p: one per notification, then the final one
UpdateCommit(p) ==
    /\ inflight[p].pc = "update"
    /\ LET plan == inflight[p].plan
           k == inflight[p].k
           r == update_commit(db, plan, k)
           done == k > Len(plan.notes) \/ r.resp.status # 200
       IN /\ WithinBounds(r.db)
          /\ Commit(r.db)
          /\ last' = IF done THEN Last("update", r.resp) ELSE last
          /\ inflight' = [inflight EXCEPT ![p] =
                IF done
                THEN [pc |-> "idle", user |-> @.user, row |-> NoRow, status |-> r.resp.status]
                ELSE [@ EXCEPT !.k = k + 1]]

(***************************************************************************)
(* Initial stores.  Rows that predate the activity log have no activity.   *)
(***************************************************************************)
ENG == <<"E", "N", "G">>

Code(prefix, digits) == prefix \o <<"-">> \o digits

InitProjects ==
    (1 :> [name |-> <<"E", "n", "g">>, project_prefix |-> ENG, is_active |-> TRUE, owner_id |-> 1]) @@
    (2 :> [name |-> <<"O", "p", "s">>, project_prefix |-> ENG, is_active |-> FALSE, owner_id |-> 2])

InitTeams ==
    (1 :> [project_id |-> 1, lead_id |-> 2, members |-> {2}]) @@
    (2 :> [project_id |-> 1, lead_id |-> 4, members |-> {4}])

InitWithTeams(seed, pj, tm) ==
    /\ stories = seed
    /\ issued = {seed[i].story_pointer : i \in DOMAIN seed}
    /\ next_id = Len(seed) + 1
    /\ activities = <<>>
    /\ notifications = <<>>
    /\ teams = tm
    /\ projects = pj
    /\ users = InitUsers
    /\ mode_requests = [u \in UserIds |-> NoModeRequest]
    /\ inflight = [p \in 1..NProc |-> [pc |-> "idle", user |-> 0, row |-> NoRow,
                                        status |-> 0]]
    /\ last = [op |-> "none", status |-> 0, detail |-> OK, pending |-> 0]

InitWith(seed, pj) == InitWithTeams(seed, pj, InitTeams)

\* the ids a request can name: every stored row and one id that is not stored
Ids == DOMAIN stories \cup {next_id}

RawIds == {FormDigits[i] : i \in Ids}

(***************************************************************************)
(* Spec: the hierarchy.  An administrator creates, re-parents, re-types    *)
(* and deletes work items of project 1, one request at a time.             *)
(***************************************************************************)
SeedChain2 ==
    <<Row(1, None, None, "Epic", None, "To Do", Code(ENG, <<"0", "0", "0", "1">>)),
      Row(1, None, None, "Story", 1, "To Do", Code(ENG, <<"0", "0", "0", "2">>))>>

HierSeeds == {<<>>, SeedChain2}

CreateReq(user, project_id, team_id, assignee_id, parent_issue_id, issue_type, status) ==
    [user |-> user, project_id |-> project_id, team_id |-> team_id,
     assignee_id |-> assignee_id, parent_issue_id |-> parent_issue_id,
     issue_type |-> issue_type, status |-> status]

UpdateReq(user, id, assignee_id, status, parent_issue_id, issue_type) ==
    [user |-> user, id |-> id, assignee_id |-> assignee_id, status |-> status,
     parent_issue_id |-> parent_issue_id, issue_type |-> issue_type, title |-> NoneSeq]

HierCreateReqs ==
    {CreateReq(1, 1, NoneStr, NoneStr, p, t, "To Do") :
        p \in {NoneStr} \cup RawIds, t \in IssueTypes \cup {NoneStr}}
    \cup {CreateReq(1, 1, NoneStr, NoneStr, "0", t, "To Do") : t \in {"Story", "Subtask"}}

HierUpdateReqs ==
    {UpdateReq(1, i, NoneStr, NoneStr, p, NoneStr) :
        i \in DOMAIN stories, p \in {"", "0"} \cup RawIds}
    \cup {UpdateReq(1, i, NoneStr, NoneStr, NoneStr, t) : i \in Ids, t \in IssueTypes}
    \cup {UpdateReq(1, i, NoneStr, NoneStr, p, "Subtask") : i \in DOMAIN stories, p \in {"", "1"}}

HierDeleteReqs == [user : {1}, id : Ids]

Init == \E seed \in HierSeeds : InitWith(seed, InitProjects)

Next ==
    \/ \E req \in HierCreateReqs : CreateIssue(req)
    \/ \E req \in HierUpdateReqs : UpdateIssue(req)
    \/ \E req \in HierDeleteReqs : DeleteIssue(req)

Spec == Init /\ [][Next]_vars

(***************************************************************************)
(* Vocabulary of the properties.                                           *)
(***************************************************************************)
\* following parent_issue_id from row i reaches a row without parent and
\* never stands on a row twice
RECURSIVE ReachesRoot(_, _, _)
ReachesRoot(st, i, seen) ==
    IF st[i].parent_issue_id = None THEN TRUE
    ELSE IF st[i].parent_issue_id \notin DOMAIN st THEN FALSE
    ELSE IF st[i].parent_issue_id \in seen THEN FALSE
    ELSE ReachesRoot(st, st[i].parent_issue_id, seen \cup {st[i].parent_issue_id})

\* the rows above row i
RECURSIVE Ancestors(_, _, _)
Ancestors(st, i, seen) ==
    IF st[i].parent_issue_id \notin DOMAIN st \/ st[i].parent_issue_id \in seen THEN seen
    ELSE Ancestors(st, st[i].parent_issue_id, seen \cup {st[i].parent_issue_id})

\* row i and the rows below it
SelfOrDescendants(st, i) == {i} \cup {j \in DOMAIN st : i \in Ancestors(st, j, {})}

\* the type-compatibility table: may a childType row have a parent of ptype
TableAllows(childType, ptype) ==
    CASE childType = "Epic" -> FALSE
      [] childType = "Story" -> ptype = "Epic"
      [] childType = "Task" -> ptype = "Story"
      [] childType = "Subtask" -> ptype = "Task"
      [] childType = "Bug" -> ptype \in {"Story", "Task"}
      [] OTHER -> TRUE

CircularErrors == {SELF_PARENT, CIRCULAR_DEPENDENCY}

InvalidParentErrors == {PARENT_NOT_FOUND, EPIC_NO_PARENT, WRONG_PARENT_TYPE, SUBTASK_NEEDS_PARENT}

(***************************************************************************)
(* C1.  The parent pointers form a forest: from every work item the        *)
(* parent chain reaches an item without parent and visits no item twice,   *)
(* after any sequence of accepted create, update and delete requests       *)
(* served one at a time from a store without cycles.                       *)
(***************************************************************************)
C1_Forest == \A i \in DOMAIN stories : ReachesRoot(stories, i, {i})

\* an accepted update has moved a row under a row created after it
C1_Witness ==
    /\ last.op = "update" /\ last.status = 200
    /\ \E k \in 1..Len(activities) :
          /\ activities[k].action = "UPDATED"
          /\ stories[activities[k].story_id].parent_issue_id > activities[k].story_id

(***************************************************************************)
(* C2.  Every work item satisfies the type-compatibility table (an Epic    *)
(* has no parent, a Story's parent is an Epic, a Task's a Story, a Subtask *)
(* has a parent and it is a Task, a Bug's parent is a Story or a Task),    *)
(* also after an update of issue_type and after a parent is deleted.       *)
(***************************************************************************)
C2_TypeTable ==
    \A i \in DOMAIN stories :
        stories[i].issue_type \in IssueTypes =>
            IF stories[i].parent_issue_id = None
            THEN stories[i].issue_type # "Subtask"
            ELSE /\ stories[i].parent_issue_id \in DOMAIN stories
                 /\ TableAllows(stories[i].issue_type,
                                stories[stories[i].parent_issue_id].issue_type)

(***************************************************************************)
(* C3.  An update, by an actor allowed to update, that sets the parent of  *)
(* an item to the item itself or to one of its descendants is rejected     *)
(* with a circular-dependency error, whatever the types of the rows and    *)
(* whatever issue_type the request carries, and nothing is stored.         *)
(***************************************************************************)
C3_CycleRejected ==
    \A i \in DOMAIN stories : \A p \in SelfOrDescendants(stories, i) :
        \A t \in IssueTypes \cup {NoneStr} :
            LET r == update_story(db, UpdateReq(1, i, NoneStr, NoneStr, FormDigits[p], t))
            IN /\ r.resp.status = 400
               /\ r.resp.detail \in CircularErrors
               /\ r.db = db

\* a request got the circular-dependency answer in a store holding a chain
\* a <- b <- c, and the chain is still there
C3_Witness ==
    /\ last.op = "update" /\ last.detail = CIRCULAR_DEPENDENCY
    /\ \E a, b, c \in DOMAIN stories :
          /\ stories[b].parent_issue_id = a
          /\ stories[c].parent_issue_id = b
          /\ stories[a].parent_issue_id = None

(***************************************************************************)
(* C4.  validateParent with a candidate parent and one of the five types:  *)
(* "Parent issue not found" when no row has the candidate id; otherwise,   *)
(* when no cycle is involved, it succeeds iff the parent's stored type is  *)
(* the one the table requires, and fails with an invalid-parent error      *)
(* when it is not.  The candidates are the ids a client can send: those of *)
(* the stored rows, an id not yet given to a row, and 0.                   *)
(***************************************************************************)
C4_ValidateParent ==
    \A t \in IssueTypes : \A p \in Ids \cup {0} : \A c \in {None} \cup DOMAIN stories :
        LET v == validate_hierarchy(stories, p, t, c)
        IN IF p \notin DOMAIN stories THEN v = PARENT_NOT_FOUND
           ELSE (c = None \/ p \notin SelfOrDescendants(stories, c)) =>
                  /\ (v = OK) <=> TableAllows(t, stories[p].issue_type)
                  /\ v # OK => v \in InvalidParentErrors

(***************************************************************************)
(* C5.  Without candidate parent validateParent succeeds iff the type is   *)
(* Epic, Story, Task or Bug; a create of a Subtask without parent and an   *)
(* update that clears the parent of a Subtask are rejected and store       *)
(* nothing.                                                                *)
(***************************************************************************)
C5_NoParent ==
    /\ \A t \in IssueTypes : \A c \in {None} \cup DOMAIN stories :
          (validate_hierarchy(stories, None, t, c) = OK) <=> (t \in {"Epic", "Story", "Task", "Bug"})
    /\ \A raw \in {NoneStr, "", " ", "0"} :
          LET r == create_user_story(db, CreateReq(1, 1, NoneStr, NoneStr, raw, "Subtask", "To Do"))
          IN r.resp.status = 400 /\ r.resp.detail = SUBTASK_NEEDS_PARENT /\ r.db = db
    /\ \A i \in DOMAIN stories :
          (stories[i].issue_type = "Subtask" /\ stories[i].parent_issue_id # None) =>
             \A raw \in {"", "0"} : \A t \in IssueTypes \cup {NoneStr} :
                LET r == update_story(db, UpdateReq(1, i, NoneStr, NoneStr, raw, t))
                IN r.resp.status = 400 /\ r.resp.detail = SUBTASK_NEEDS_PARENT /\ r.db = db

\* an update that clears the parent of a stored Subtask was refused
C5_Witness ==
    /\ last.op = "update" /\ last.detail = SUBTASK_NEEDS_PARENT
    /\ \E i \in DOMAIN stories :
          stories[i].issue_type = "Subtask" /\ stories[i].parent_issue_id # None

(***************************************************************************)
(* SpecGate: the Done gate.  An administrator changes the status of an     *)
(* Epic and of its children.                                               *)
(***************************************************************************)
GateSeed(epic, child1, child2) ==
    <<Row(1, None, None, "Epic", None, epic, Code(ENG, <<"0", "0", "0", "1">>)),
      Row(1, None, None, "Story", 1, child1, Code(ENG, <<"0", "0", "0", "2">>)),
      Row(1, None, None, "Story", 1, child2, Code(ENG, <<"0", "0", "0", "3">>))>>

GateSeeds == {GateSeed("To Do", "To Do", "In Progress"),
              GateSeed("In Progress", "done", "In Progress"),
              GateSeed("done", "Done", "To Do")}

GateStatuses == {"Done", "done", "To Do"}

DoneSpellings == {"Done", "done", "DONE"}

GateUpdateReqs ==
    {UpdateReq(1, i, NoneStr, s, NoneStr, NoneStr) : i \in Ids, s \in GateStatuses}

GateCreateReqs ==
    {CreateReq(1, 1, NoneStr, NoneStr, p, "Story", s) : p \in {"1"}, s \in {"To Do", "Done"}}

InitGate == \E seed \in GateSeeds : InitWith(seed, InitProjects)

NextGate ==
    \/ \E req \in GateUpdateReqs : UpdateIssue(req)
    \/ \E req \in GateCreateReqs : CreateIssue(req)
    \/ \E req \in HierDeleteReqs : DeleteIssue(req)

SpecGate == InitGate /\ [][NextGate]_vars

(***************************************************************************)
(* C6.  A status-only update, by an actor allowed to update, that changes  *)
(* the status to "Done" in any spelling of case is accepted iff every      *)
(* direct child is Done in any spelling; otherwise it is rejected, the     *)
(* error carries the number of direct children not Done and nothing is     *)
(* stored.  A change to another status is never rejected by the gate.      *)
(***************************************************************************)
C6_DoneGate ==
    \A i \in DOMAIN stories : \A s \in GateStatuses \cup {"DONE", "In Progress"} :
        LET r == update_story(db, UpdateReq(1, i, NoneStr, s, NoneStr, NoneStr))
            notDone == {c \in DOMAIN stories : stories[c].parent_issue_id = i
                                                /\ stories[c].status \notin DoneSpellings}
        IN IF s # stories[i].status /\ s \in DoneSpellings
           THEN IF notDone = {}
                THEN r.resp.status = 200 /\ r.db.stories[i].status = s
                ELSE /\ r.resp.status = 400 /\ r.resp.detail = NOT_DONE
                     /\ r.resp.pending = Cardinality(notDone)
                     /\ r.db = db
           ELSE r.resp.status = 200 /\ r.db.stories[i].status = s

\* an item with children was moved to Done after its last open child was
C6_Witness ==
    /\ last.op = "update" /\ last.status = 200
    /\ \E k1, k2 \in 1..Len(activities) :
          /\ k1 < k2
          /\ activities[k1].action = "UPDATED" /\ activities[k2].action = "UPDATED"
          /\ stories[activities[k1].story_id].parent_issue_id = activities[k2].story_id
          /\ stories[activities[k2].story_id].status \in DoneSpellings
          /\ \A c \in children(stories, activities[k2].story_id) :
                stories[c].status \in DoneSpellings

(***************************************************************************)
(* SpecAlloc: code allocation.  Administrators create Epics in two active  *)
(* projects that share the prefix ENG; NProc create requests are served    *)
(* concurrently, each reading the store and writing later.                 *)
(***************************************************************************)
AllocProjects ==
    [InitProjects EXCEPT ![2].is_active = TRUE]

AllocSeed ==
    <<Row(1, None, None, "Epic", None, "To Do", Code(ENG, <<"0", "0", "0", "1">>)),
      Row(2, None, None, "Epic", None, "To Do", Code(ENG, <<"a", "b", "c">>))>>

AllocSeeds == {<<>>, AllocSeed}

AllocCreateReqs ==
    {CreateReq(1, pid, NoneStr, NoneStr, NoneStr, "Epic", "To Do") : pid \in {1, 2}}

InitAlloc == \E seed \in AllocSeeds : InitWith(seed, AllocProjects)

NextAlloc ==
    \/ \E p \in 1..NProc : \E req \in AllocCreateReqs : CreateRead(p, req)
    \/ \E p \in 1..NProc : CreateWrite(p)
    \/ \E req \in HierDeleteReqs : DeleteIssue(req)

SpecAlloc == InitAlloc /\ [][NextAlloc]_vars

(***************************************************************************)
(* C7.  No two stored work items have the same code, in every reachable    *)
(* state, also those reached by interleaved concurrent create requests.    *)
(***************************************************************************)
C7_UniqueCodes ==
    \A i, j \in DOMAIN stories :
        i # j => stories[i].story_pointer # stories[j].story_pointer

\* two requests read the same store; the insert of one was refused by the
\* unique index after the other had stored its row
C7_Witness ==
    \E p, q \in 1..NProc :
        /\ p # q
        /\ inflight[p].pc = "idle" /\ inflight[p].status = 200
        /\ inflight[q].pc = "idle" /\ inflight[q].status = 500
        /\ last.detail = INTEGRITY_ERROR

(***************************************************************************)
(* C8.  A code that a work item ever had is never given to a work item     *)
(* created later: deleting an item, also the one with the highest number   *)
(* of its prefix, leaves a gap that the next create does not fill.         *)
(***************************************************************************)
C8_NeverReused ==
    [][\A i \in DOMAIN stories' \ DOMAIN stories :
            stories'[i].story_pointer \notin issued]_vars

(***************************************************************************)
(* C9.  Concurrent create requests for one prefix, each by an actor        *)
(* allowed to create, all succeed: no such request is answered with an     *)
(* error because another one took its code.                                *)
(***************************************************************************)
C9_AllSucceed ==
    \A p \in 1..NProc : inflight[p].status \in {0, 200}

(***************************************************************************)
(* SpecPerm: who may do what.  Every user creates, updates and deletes     *)
(* items of the active project; item 1 belongs to team 1 (led by user 2)   *)
(* and is assigned to user 3, item 2 belongs to team 2 (led by user 4).    *)
(***************************************************************************)
PermSeed ==
    <<Row(1, 1, 3, "Epic", None, "To Do", Code(ENG, <<"0", "0", "0", "1">>)),
      Row(1, 2, None, "Epic", None, "To Do", Code(ENG, <<"0", "0", "0", "2">>))>>

PermSeeds == {<<>>, PermSeed}

PermCreateReqs ==
    {CreateReq(u, 1, t, NoneStr, NoneStr, "Epic", "To Do") :
        u \in UserIds, t \in {NoneStr, "1", "2"}}

PermUpdateReqs ==
    {UpdateReq(u, i, NoneStr, "In Progress", NoneStr, NoneStr) : u \in UserIds, i \in Ids}

PermDeleteReqs == [user : UserIds, id : Ids]

InitPerm == \E seed \in PermSeeds : InitWith(seed, InitProjects)

NextPerm ==
    \/ \E req \in PermCreateReqs : CreateIssue(req)
    \/ \E req \in PermUpdateReqs : UpdateIssue(req)
    \/ \E req \in PermDeleteReqs : DeleteIssue(req)

SpecPerm == InitPerm /\ [][NextPerm]_vars

\* the actors the rules of deletion name: master admin, role ADMIN, or the
\* lead of the item's team
MayDelete(u, row) ==
    \/ is_master_admin(u)
    \/ users[u].role = "ADMIN"
    \/ (row.team_id \in DOMAIN teams /\ teams[row.team_id].lead_id = u)

(***************************************************************************)
(* C10.  A delete request for an existing item by an actor who is neither  *)
(* master admin, nor of role ADMIN, nor the lead of the item's team (the   *)
(* assignee of the item included) is refused with 403 and the item stays.  *)
(***************************************************************************)
C10_DeleteLeadOnly ==
    [][\A req \in PermDeleteReqs :
          (/\ req.id \in DOMAIN stories
           /\ ~MayDelete(req.user, stories[req.id])
           /\ DeleteIssue(req))
          => (last'.status = 403 /\ stories' = stories)]_vars

(***************************************************************************)
(* SpecAccess: access control.  Users 2 and 4 lead teams 1 and 2 of the    *)
(* active project 1, user 2 also leads team 3 of the inactive project 2,   *)
(* user 3 is a member of team 2 and the assignee of item 1, user 5 is an   *)
(* ADMIN in DEVELOPER view.  Every user creates, reads, updates and        *)
(* deletes.                                                                *)
(***************************************************************************)
AccessTeams ==
    (1 :> [project_id |-> 1, lead_id |-> 2, members |-> {2}]) @@
    (2 :> [project_id |-> 1, lead_id |-> 4, members |-> {3, 4}]) @@
    (3 :> [project_id |-> 2, lead_id |-> 2, members |-> {2}])

AccessSeed2 ==
    <<Row(1, 1, 3, "Epic", None, "To Do", Code(ENG, <<"0", "0", "0", "1">>)),
      Row(1, 2, None, "Epic", None, "To Do", Code(ENG, <<"0", "0", "0", "2">>))>>

AccessSeed3 ==
    Append(AccessSeed2,
           Row(2, 3, 4, "Epic", None, "To Do", Code(ENG, <<"0", "0", "0", "3">>)))

AccessSeeds == {AccessSeed2, AccessSeed3}

\* the team_id form values with the team each names
RawTeams == {<<NoneStr, None>>, <<"", None>>, <<"0", 0>>, <<"1", 1>>, <<"2", 2>>,
             <<"3", 3>>, <<"9", 9>>}

AccessCreateReqs ==
    {CreateReq(u, pid, t, NoneStr, NoneStr, "Epic", "To Do") :
        u \in UserIds, pid \in {1, 2}, t \in {NoneStr, "1", "3"}}

AccessUpdateReqs ==
    {UpdateReq(u, i, NoneStr, "In Progress", NoneStr, NoneStr) : u \in UserIds, i \in Ids}
    \cup {UpdateReq(1, i, a, NoneStr, NoneStr, NoneStr) : i \in Ids, a \in {"", "4"}}

AccessIdReqs == [user : UserIds, id : Ids]

InitAccess == \E seed \in AccessSeeds : InitWithTeams(seed, InitProjects, AccessTeams)

NextAccess ==
    \/ \E req \in AccessCreateReqs : CreateIssue(req)
    \/ \E req \in AccessUpdateReqs : UpdateIssue(req)
    \/ \E req \in AccessIdReqs : DeleteIssue(req)
    \/ \E req \in AccessIdReqs : GetIssue(req)
    \/ \E req \in [user : UserIds, project_id : {1, 2, 9}] : ListIssues(req)

SpecAccess == InitAccess /\ [][NextAccess]_vars

\* the actors the rules call administrators, and the others
Admins == {u \in UserIds : is_master_admin(u) \/ users[u].role = "ADMIN"}

NonAdmins == UserIds \ Admins

LeadsTeamOf(u, row) ==
    row.team_id \in DOMAIN teams /\ teams[row.team_id].lead_id = u

(***************************************************************************)
(* C11.  For an actor who is not an administrator a create request for a   *)
(* project and a team is accepted iff the team is supplied, exists,        *)
(* belongs to the project and is led by the actor, and the project is      *)
(* active; otherwise it is refused with 403 and nothing is stored.         *)
(***************************************************************************)
C11_CreateByLead ==
    \A u \in NonAdmins : \A pid \in DOMAIN projects : \A t \in RawTeams :
        LET r == create_user_story(db, CreateReq(u, pid, t[1], NoneStr, NoneStr, "Epic", "To Do"))
            allowed == /\ t[2] \in DOMAIN teams
                       /\ teams[t[2]].project_id = pid
                       /\ teams[t[2]].lead_id = u
                       /\ projects[pid].is_active
        IN IF allowed
           THEN /\ r.resp.status = 200
                /\ DOMAIN r.db.stories = DOMAIN stories \cup {next_id}
                /\ r.db.stories[next_id].team_id = t[2]
           ELSE r.resp.status = 403 /\ r.db = db

\* an item was created by a team lead who is not an administrator, and a
\* later create request was refused
C11_Witness ==
    /\ last.op = "create" /\ last.status = 403
    /\ \E k \in 1..Len(activities) :
          activities[k].action = "CREATED" /\ activities[k].user_id \in NonAdmins

(***************************************************************************)
(* C12.  For an actor who is not an administrator an update of an item of  *)
(* an active project passes the permission check iff the actor leads the   *)
(* item's team or is its assignee; otherwise it is refused with 403 "No    *)
(* permission to edit this issue." and the store is unchanged.             *)
(***************************************************************************)
C12_UpdateByLeadOrAssignee ==
    \A u \in NonAdmins : \A i \in DOMAIN stories :
        projects[stories[i].project_id].is_active =>
            LET r == update_story(db, UpdateReq(u, i, NoneStr, "Done", NoneStr, NoneStr))
            IN IF LeadsTeamOf(u, stories[i]) \/ stories[i].assignee_id = u
               THEN r.resp.status = 200 /\ r.db.stories[i].status = "Done"
               ELSE r.resp = Resp(403, NO_PERMISSION_EDIT) /\ r.db = db

\* an update by the assignee, who does not lead the team, was accepted
C12_Witness ==
    \E k \in 1..Len(activities) :
        /\ activities[k].action = "UPDATED"
        /\ activities[k].user_id \in NonAdmins
        /\ stories[activities[k].story_id].assignee_id = activities[k].user_id
        /\ ~LeadsTeamOf(activities[k].user_id, stories[activities[k].story_id])

(***************************************************************************)
(* C13.  For an actor who is not an administrator a read of an item is     *)
(* accepted iff the actor leads a team of the item's project, or is a      *)
(* member of the item's team, or is the item's assignee, or is the         *)
(* assignee of another item of the same project; otherwise it is refused   *)
(* with 403.                                                               *)
(***************************************************************************)
C13_View ==
    \A u \in NonAdmins : \A i \in DOMAIN stories :
        LET r == get_story_by_id(db, [user |-> u, id |-> i])
            row == stories[i]
            related ==
                \/ \E t \in DOMAIN teams :
                      teams[t].project_id = row.project_id /\ teams[t].lead_id = u
                \/ (row.team_id \in DOMAIN teams /\ u \in teams[row.team_id].members)
                \/ row.assignee_id = u
                \/ \E j \in DOMAIN stories \ {i} :
                      stories[j].project_id = row.project_id /\ stories[j].assignee_id = u
        IN IF related THEN r.resp.status = 200
           ELSE r.resp = Resp(403, ACCESS_DENIED)

\* a read was refused, and a user who is only the assignee of another item
\* of the project can read an item
C13_Witness ==
    /\ last.op = "get" /\ last.detail = ACCESS_DENIED
    /\ \E u \in NonAdmins : \E i \in DOMAIN stories :
          /\ stories[i].assignee_id # u
          /\ ~(stories[i].team_id \in DOMAIN teams /\ u \in teams[stories[i].team_id].members)
          /\ ~\E t \in DOMAIN teams :
                teams[t].project_id = stories[i].project_id /\ teams[t].lead_id = u
          /\ get_story_by_id(db, [user |-> u, id |-> i]).resp.status = 200

(***************************************************************************)
(* C14.  An actor who is not an administrator, leads team X and has no     *)
(* relation to team Y of the same project (not its lead, not a member,     *)
(* not an assignee in the project) can update, delete and read the items   *)
(* of team X, and is refused with 403, the store unchanged, when updating, *)
(* deleting or reading an item of team Y.                                  *)
(***************************************************************************)
C14_LeadScoped ==
    \A u \in NonAdmins : \A i, j \in DOMAIN stories :
        LET x == stories[i]
            y == stories[j]
            reqX == [user |-> u, id |-> i]
            reqY == [user |-> u, id |-> j]
        IN (/\ LeadsTeamOf(u, x)
            /\ y.team_id \in DOMAIN teams /\ y.team_id # x.team_id
            /\ y.project_id = x.project_id /\ projects[x.project_id].is_active
            /\ ~LeadsTeamOf(u, y)
            /\ u \notin teams[y.team_id].members
            /\ \A k \in DOMAIN stories :
                  stories[k].project_id = y.project_id => stories[k].assignee_id # u)
           => /\ update_story(db, UpdateReq(u, i, NoneStr, "Done", NoneStr, NoneStr)).resp.status = 200
              /\ delete_user_story(db, reqX).resp.status # 403
              /\ get_story_by_id(db, reqX).resp.status = 200
              /\ update_story(db, UpdateReq(u, j, NoneStr, "Done", NoneStr, NoneStr)).resp.status = 403
              /\ delete_user_story(db, reqY).resp.status = 403
              /\ delete_user_story(db, reqY).db = db
              /\ get_story_by_id(db, reqY).resp.status = 403

(***************************************************************************)
(* C15.  An administrator (master admin or role ADMIN), whatever the view  *)
(* mode and the team relations, is not refused when creating in an active  *)
(* project and when reading, updating or deleting an item of an active     *)
(* project; on an inactive project create, update and delete are refused   *)
(* with 403 "The project is inactive." and the store is unchanged.         *)
(***************************************************************************)
C15_AdminAll ==
    /\ \A u \in Admins : \A i \in DOMAIN stories :
          LET upd == update_story(db, UpdateReq(u, i, NoneStr, "Done", NoneStr, NoneStr))
              del == delete_user_story(db, [user |-> u, id |-> i])
              get == get_story_by_id(db, [user |-> u, id |-> i])
          IN /\ get.resp.status = 200
             /\ IF projects[stories[i].project_id].is_active
                THEN /\ upd.resp.status = 200 /\ upd.db.stories[i].status = "Done"
                     /\ del.resp.status # 403
                     /\ (\A k \in 1..Len(activities) : activities[k].story_id # i)
                           => (del.resp.status = 200 /\ i \notin DOMAIN del.db.stories)
                ELSE /\ upd.resp = Resp(403, PROJECT_INACTIVE) /\ upd.db = db
                     /\ del.resp = Resp(403, PROJECT_INACTIVE) /\ del.db = db
    /\ \A u \in Admins : \A pid \in DOMAIN projects : \A t \in RawTeams :
          (t[2] \in DOMAIN teams \cup {None}) =>
             LET r == create_user_story(db, CreateReq(u, pid, t[1], NoneStr, NoneStr, "Epic", "To Do"))
             IN IF projects[pid].is_active
                THEN r.resp.status = 200 /\ next_id \in DOMAIN r.db.stories
                ELSE r.resp = Resp(403, PROJECT_INACTIVE) /\ r.db = db

\* the ADMIN in DEVELOPER view, who has no team, has updated an item, and a
\* request on the inactive project was refused
C15_Witness ==
    /\ last.detail = PROJECT_INACTIVE
    /\ \E k \in 1..Len(activities) :
          /\ activities[k].action = "UPDATED"
          /\ users[activities[k].user_id].role = "ADMIN"
          /\ view_mode(activities[k].user_id) = "DEVELOPER"

(***************************************************************************)
(* SpecProject: projects and their items.  Project 1 is active, project 2  *)
(* (owner user 4, in ADMIN view) is inactive and holds an Epic and its     *)
(* child Story.  Projects are updated, reactivated, archived and deleted   *)
(* while the administrator creates, updates and deletes items.             *)
(***************************************************************************)
ProjProjects ==
    [InitProjects EXCEPT ![2].owner_id = 4]

ProjSeed ==
    <<Row(1, 1, None, "Epic", None, "To Do", Code(ENG, <<"0", "0", "0", "1">>)),
      Row(2, 3, None, "Epic", None, "To Do", Code(ENG, <<"0", "0", "0", "2">>)),
      Row(2, 3, None, "Story", 2, "To Do", Code(ENG, <<"0", "0", "0", "3">>))>>

ProjSeeds == {<<>>, ProjSeed}

ProjUpdateReqs ==
    [user : {1, 4, 5}, id : {1, 2}, is_active : {NoneStr, "true", "false"},
     project_prefix : {NoneSeq}]
    \cup [user : {1}, id : {2}, is_active : {NoneStr, "true"}, project_prefix : {<<"o", "p">>}]

ProjDeleteReqs == [user : {1, 4, 5}, id : {1, 2}]

ProjCreateReqs ==
    {CreateReq(1, pid, NoneStr, NoneStr, NoneStr, "Epic", "To Do") : pid \in {1, 2}}

ProjStoryUpdateReqs ==
    {UpdateReq(1, i, NoneStr, "In Progress", NoneStr, NoneStr) : i \in Ids}

InitProject == \E seed \in ProjSeeds : InitWithTeams(seed, ProjProjects, AccessTeams)

NextProject ==
    \/ \E req \in ProjUpdateReqs : UpdateProject(req)
    \/ \E req \in ProjDeleteReqs : DeleteProject(req)
    \/ \E req \in ProjCreateReqs : CreateIssue(req)
    \/ \E req \in ProjStoryUpdateReqs : UpdateIssue(req)
    \/ \E req \in HierDeleteReqs : DeleteIssue(req)

SpecProject == InitProject /\ [][NextProject]_vars

\* the items of a project, with their field values
ItemsOf(st, pid) ==
    {<<i, st[i]>> : i \in {j \in DOMAIN st : st[j].project_id = pid}}

(***************************************************************************)
(* C16.  While a project is inactive every create, update and delete of    *)
(* its items is refused with 403 "The project is inactive.", and a step    *)
(* that does not reactivate it leaves the project and the set and the      *)
(* field values of its items as they are.                                  *)
(***************************************************************************)
C16_InactiveReadOnly ==
    [][\A pid \in DOMAIN projects :
          ~projects[pid].is_active =>
             /\ create_user_story(db, CreateReq(1, pid, NoneStr, NoneStr, NoneStr,
                                                "Epic", "To Do")).resp = Resp(403, PROJECT_INACTIVE)
             /\ \A i \in DOMAIN stories :
                   stories[i].project_id = pid =>
                      /\ update_story(db, UpdateReq(1, i, NoneStr, "In Progress", NoneStr,
                                                    NoneStr)).resp = Resp(403, PROJECT_INACTIVE)
                      /\ delete_user_story(db, [user |-> 1, id |-> i]).resp
                            = Resp(403, PROJECT_INACTIVE)
             /\ \/ (pid \in DOMAIN projects' /\ projects'[pid].is_active)
                \/ /\ pid \in DOMAIN projects'
                   /\ projects'[pid] = projects[pid]
                   /\ ItemsOf(stories', pid) = ItemsOf(stories, pid)]_vars

(***************************************************************************)
(* C17.  After an accepted delete of item X neither X nor any descendant   *)
(* of X is in the store: no former child of X stays behind without parent. *)
(***************************************************************************)
C17_CascadeDelete ==
    [][\A req \in HierDeleteReqs :
          (/\ req.id \in DOMAIN stories
           /\ DeleteIssue(req)
           /\ last'.status = 200)
          => \A x \in SelfOrDescendants(stories, req.id) : x \notin DOMAIN stories']_vars

(***************************************************************************)
(* SpecAudit: the activity log.  The administrator creates items and       *)
(* updates title, status and assignee of items, one field or several at a  *)
(* time, also with the values that are already stored.                     *)
(***************************************************************************)
AuditSeed1 ==
    <<Row(1, None, None, "Epic", None, "To Do", Code(ENG, <<"0", "0", "0", "1">>))>>

AuditSeeds == {<<>>, AuditSeed1, SeedChain2}

AuditTitles == {<<"T">>, <<"T", " ">>, <<"U">>}

AuditUpdateReqs ==
    {[UpdateReq(1, i, a, st, NoneStr, NoneStr) EXCEPT !.title = t] :
        i \in Ids, a \in {NoneStr, "", "3"}, st \in {NoneStr, "To Do", "Done"},
        t \in AuditTitles \cup {NoneSeq}}

AuditCreateReqs ==
    {CreateReq(1, 1, NoneStr, a, NoneStr, "Epic", "To Do") : a \in {NoneStr, "3"}}

InitAudit == \E seed \in AuditSeeds : InitWith(seed, InitProjects)

NextAudit ==
    \/ \E req \in AuditCreateReqs : CreateIssue(req)
    \/ \E req \in AuditUpdateReqs : UpdateIssue(req)
    \/ \E req \in HierDeleteReqs : DeleteIssue(req)
    \/ \E req \in AuditCreateReqs : CreateIssueNotifyRaises(req)
    \/ \E req \in {r \in AuditUpdateReqs : r.title = NoneSeq /\ r.assignee_id = "3"} :
       \E k \in {1, 2} :
          UpdateIssueNotifyRaises(req, k)

SpecAudit == InitAudit /\ [][NextAudit]_vars

\* the fields of a row
RowFields == {"project_id", "team_id", "assignee_id", "issue_type", "parent_issue_id",
              "status", "story_pointer", "title"}

\* the number of fields in which two rows differ
Differing(r1, r2) == Cardinality({f \in RowFields : r1[f] # r2[f]})

\* a string without its leading and trailing blanks
RECURSIVE Strip(_)
Strip(str) ==
    IF str = <<>> THEN str
    ELSE IF Head(str) = " " THEN Strip(Tail(str))
    ELSE IF str[Len(str)] = " " THEN Strip(SubSeq(str, 1, Len(str) - 1))
    ELSE str

NormalizedSame(req, row) ==
    /\ req.title = NoneSeq \/ Strip(req.title) = Strip(row.title)
    /\ req.status = NoneStr \/ req.status = row.status
    /\ \/ req.assignee_id = NoneStr
       \/ (req.assignee_id = "" /\ row.assignee_id = None)
       \/ (req.assignee_id = "3" /\ row.assignee_id = 3)
    /\ req.parent_issue_id = NoneStr /\ req.issue_type = NoneStr

(***************************************************************************)
(* C19.  An update whose submitted values equal the stored ones after      *)
(* normalization (blanks around a string trimmed, None taken as the empty  *)
(* string) appends no entry to the activity log.                           *)
(***************************************************************************)
C19_NoOpUpdate ==
    [][\A req \in AuditUpdateReqs :
          (/\ req.id \in DOMAIN stories
           /\ NormalizedSame(req, stories[req.id])
           /\ UpdateIssue(req))
          => activities' = activities]_vars

(***************************************************************************)
(* C20.  The activity log is append-only: no step, the deletion of an item *)
(* and the deletion of a project included, removes or alters an entry      *)
(* that was written.                                                       *)
(***************************************************************************)
C20_AppendOnly ==
    [][/\ Len(activities') >= Len(activities)
       /\ SubSeq(activities', 1, Len(activities)) = activities]_vars

(***************************************************************************)
(* SpecConc: two updateIssue requests served concurrently.  Items 1 and 2  *)
(* have no type (issue_type is nullable), item 3 is a child of item 1 in   *)
(* the inactive project.  The administrator re-parents items and marks     *)
(* them Done; each commit of a handler is a step of its own.               *)
(***************************************************************************)
ConcSeed ==
    <<Row(1, None, None, NoneStr, None, "To Do", Code(ENG, <<"0", "0", "0", "1">>)),
      Row(1, None, 3, NoneStr, None, "To Do", Code(ENG, <<"0", "0", "0", "2">>)),
      Row(2, None, None, NoneStr, 1, "To Do", Code(ENG, <<"0", "0", "0", "3">>))>>

ConcUpdateReqs ==
    {UpdateReq(1, i, NoneStr, st, p, NoneStr) :
        i \in DOMAIN stories, st \in {NoneStr, "Done"}, p \in {NoneStr, "1", "2"}}

InitConc == InitWith(ConcSeed, InitProjects)

NextConc ==
    \/ \E p \in 1..NProc : \E req \in ConcUpdateReqs : UpdateRead(p, req)
    \/ \E p \in 1..NProc : UpdateCommit(p)

SpecConc == InitConc /\ [][NextConc]_vars

\* the error responses of the item handlers
ErrorStatuses == {400, 403, 404}

(***************************************************************************)
(* C21.  A createIssue, updateIssue or deleteIssue that is answered with   *)
(* an error (not found, project inactive, permission denied, invalid       *)
(* parent, circular dependency, blocked by children) leaves the stored     *)
(* items and the activity log as they were.  In particular an update whose *)
(* new parent is valid and whose change to Done is blocked by a child does *)
(* not store the new parent and logs nothing.                              *)
(***************************************************************************)
C21_ErrorsChangeNothing ==
    /\ \A u \in {1, 2} : \A pid \in {1, 2, 9} : \A par \in {NoneStr, "1", "9"} :
       \A t \in {"Epic", "Subtask", NoneStr} :
          LET r == create_user_story(db, CreateReq(u, pid, NoneStr, NoneStr, par, t, "To Do"))
          IN r.resp.status \in ErrorStatuses => r.db = db
    /\ \A u \in {1, 2} : \A i \in Ids : \A st \in {NoneStr, "Done"} :
       \A par \in {NoneStr, "", "1", "2", "3", "9"} :
          LET r == update_story(db, UpdateReq(u, i, NoneStr, st, par, NoneStr))
          IN (r.resp.status \in ErrorStatuses /\ r.resp.detail # HANGS) => r.db = db
    /\ \A u \in {1, 2} : \A i \in Ids :
          LET r == delete_user_story(db, [user |-> u, id |-> i])
          IN r.resp.status \in ErrorStatuses => r.db = db
    /\ \A i \in DOMAIN stories : \A par \in DOMAIN stories :
          LET r == update_story(db, UpdateReq(1, i, NoneStr, "Done", FormDigits[par], NoneStr))
          IN (/\ r.resp.detail = NOT_DONE
              /\ par # stories[i].parent_issue_id
              /\ validate_hierarchy(stories, par, stories[i].issue_type, i) = OK)
             => /\ r.db.stories[i].parent_issue_id = stories[i].parent_issue_id
                /\ r.db.activities = activities

\* an update of item 1 to Done was refused because of its child, in a store
\* where item 2 is a valid new parent of item 1
C21_Witness ==
    /\ last.op = "update" /\ last.detail = NOT_DONE /\ last.pending = 1
    /\ stories[1].parent_issue_id = None
    /\ validate_hierarchy(stories, 2, stories[1].issue_type, 1) = OK
    /\ update_story(db, UpdateReq(1, 1, NoneStr, "Done", "2", NoneStr)).resp.detail = NOT_DONE

(***************************************************************************)
(* C22.  When a notification cannot be stored, a createIssue or            *)
(* updateIssue that succeeds otherwise still succeeds: the caller gets     *)
(* 200 and the item and its activity entry are committed as they are       *)
(* without the failure.                                                    *)
(***************************************************************************)
C22_NotifyBestEffort ==
    /\ \A req \in AuditCreateReqs :
          LET ok == create_user_story(db, req)
              f == create_user_story_notify_raises(db, req)
          IN ok.resp.status = 200 =>
                /\ f.resp.status = 200
                /\ f.db.stories = ok.db.stories /\ f.db.activities = ok.db.activities
    /\ \A req \in AuditUpdateReqs : \A k \in {1, 2} :
          LET ok == update_story(db, req)
              f == update_story_notify_raises(db, req, k)
          IN ok.resp.status = 200 =>
                /\ f.resp.status = 200
                /\ f.db.stories = ok.db.stories /\ f.db.activities = ok.db.activities

\* the actor may list the items of the project: the master admin always, an
\* actor in ADMIN view as the owner, an actor in DEVELOPER view as member or
\* lead of a team of the project or as assignee of one of its items
MayList(u, pid) ==
    \/ is_master_admin(u)
    \/ view_mode(u) = "ADMIN" /\ projects[pid].owner_id = u
    \/ /\ view_mode(u) = "DEVELOPER"
       /\ \/ \E t \in DOMAIN teams :
                teams[t].project_id = pid /\ (teams[t].lead_id = u \/ u \in teams[t].members)
          \/ \E i \in DOMAIN stories : stories[i].project_id = pid /\ stories[i].assignee_id = u

(***************************************************************************)
(* C23.  Listing the items of a project returns all of them to the master  *)
(* admin, to the owner in ADMIN view and to a team member, team lead or    *)
(* assignee of the project in DEVELOPER view; every other actor receives   *)
(* no item of the project.                                                 *)
(***************************************************************************)
C23_ListScoped ==
    \A u \in UserIds : \A pid \in DOMAIN projects :
        get_stories_by_project(db, [user |-> u, project_id |-> pid]).items =
            IF MayList(u, pid) THEN {i \in DOMAIN stories : stories[i].project_id = pid}
            ELSE {}

(***************************************************************************)
(* SpecMode: the actors log in, switch their view mode, ask for a mode     *)
(* switch and the master admin (or somebody else) approves, over the       *)
(* stores of SpecAccess.                                                   *)
(***************************************************************************)
NextMode ==
    \/ \E req \in [user : UserIds, mode : {"ADMIN", "DEVELOPER", "TESTER"}] :
          ModeStep("switch_mode", switch_mode(db, req))
    \/ \E req \in [user : UserIds] :
          ModeStep("login", perform_login(db, req))
    \/ \E req \in [user : UserIds, mode : {"ADMIN", "DEVELOPER", "TESTER"}] :
          ModeStep("request", create_switch_request(db, req))
    \/ \E req \in [user : {1, 2}, target : UserIds] :
          ModeStep("approve", approve_request(db, req))

SpecMode == InitAccess /\ [][NextMode]_vars

\* what the item handlers answer to the actor: the status of a create, a
\* view, an update and a delete
CreateAnswer(u, pid, t) ==
    create_user_story(db, CreateReq(u, pid, t, NoneStr, NoneStr, "Epic", "To Do")).resp.status

ItemAnswer(u, q, i) ==
    CASE q = "get" -> get_story_by_id(db, [user |-> u, id |-> i]).resp.status
      [] q = "update" ->
            update_story(db, UpdateReq(u, i, NoneStr, "In Progress", NoneStr, NoneStr)).resp.status
      [] OTHER -> delete_user_story(db, [user |-> u, id |-> i]).resp.status

(***************************************************************************)
(* C24.  A step that changes the view mode of an actor (switch-mode,       *)
(* login, approval of a mode-switch request) does not change what the      *)
(* item handlers answer to that actor for create, view, update and delete: *)
(* nothing that was refused is permitted afterwards.                       *)
(***************************************************************************)
C24_ModeGrantsNothing ==
    [][\A u \in UserIds :
          view_mode(u)' # view_mode(u) =>
             /\ \A pid \in {1, 2} : \A t \in {NoneStr, "1", "3"} :
                   CreateAnswer(u, pid, t) = 403 => CreateAnswer(u, pid, t)' = 403
             /\ \A q \in {"get", "update", "delete"} : \A i \in DOMAIN stories :
                   ItemAnswer(u, q, i) = 403 => ItemAnswer(u, q, i)' = 403]_vars

(***************************************************************************)
(* C25.  The view mode of the master admin is ADMIN in every state:        *)
(* switch-mode and a mode-switch request by the master admin are refused   *)
(* and change nothing, a login of the master admin changes nothing.        *)
(***************************************************************************)
C25_MasterAlwaysAdmin ==
    \A m \in UserIds : is_master_admin(m) =>
        /\ view_mode(m) = "ADMIN"
        /\ \A mode \in {"ADMIN", "DEVELOPER"} :
              /\ switch_mode(db, [user |-> m, mode |-> mode]).resp.status = 400
              /\ switch_mode(db, [user |-> m, mode |-> mode]).users = users
              /\ create_switch_request(db, [user |-> m, mode |-> mode]).resp.status = 400
              /\ create_switch_request(db, [user |-> m, mode |-> mode]).mode_requests
                    = mode_requests
        /\ perform_login(db, [user |-> m]).users = users
        /\ mode_requests[m] = NoModeRequest

\* the master admin asked to switch to the DEVELOPER view and was refused,
\* while another actor's switch had been approved
C25_Witness ==
    /\ last.op = "switch_mode" /\ last.status = 400
    /\ last.detail = "Master Admin cannot switch modes"
    /\ \E u \in UserIds : mode_requests[u].status = "APPROVED"
    /\ view_mode(1) = "ADMIN"

(***************************************************************************)
(* C26.  The ancestor walk of the parent validation ends for every store   *)
(* and every pair of candidate parent and current item, also when the      *)
(* parent pointers of the store contain a cycle that does not pass         *)
(* through the current item.                                               *)
(***************************************************************************)
C26_WalkTerminates ==
    \A cand \in DOMAIN stories : \A cur \in DOMAIN stories :
        validate_hierarchy(stories, cand, stories[cur].issue_type, cur) # HANGS

(***************************************************************************)
(* C28.  A step that commits new field values of an item, or a new item,   *)
(* commits the activity entry of that mutation in the same step: no        *)
(* commit of createIssue or updateIssue stores the row ahead of the entry. *)
(***************************************************************************)
C28_RowAndEntryTogether ==
    [][\A i \in DOMAIN stories' :
          (i \notin DOMAIN stories \/ stories'[i] # stories[i]) =>
             /\ Len(activities') = Len(activities) + 1
             /\ activities'[Len(activities')].story_id = i]_vars

(***************************************************************************)
(* C30.  The parent pointers stay free of cycles when two updateIssue      *)
(* requests are served interleaved, one making item A a child of B, the    *)
(* other B a child of A: no item is among its own ancestors.               *)
(***************************************************************************)
C30_NoCycleInterleaved ==
    \A i \in DOMAIN stories : i \notin Ancestors(stories, i, {})

(***************************************************************************)
(* C27.  Every entry point checks in the order existence, project-active   *)
(* gate, permission, hierarchy and workflow validation: when several       *)
(* checks fail at once the answer is that of the first failing one.  A     *)
(* create for a project that does not exist is answered "project not       *)
(* found" whatever else is wrong with it, a missing assignee included.     *)
(***************************************************************************)
C27_CheckOrder ==
    /\ \A u \in UserIds : \A pid \in {1, 2, 9} : \A t \in {NoneStr, "1", "3"} :
       \A a \in {NoneStr, "9"} : \A par \in {NoneStr, "9"} :
          LET r == create_user_story(db, CreateReq(u, pid, t, a, par, "Story", "To Do"))
          IN IF pid \notin DOMAIN projects THEN r.resp.detail = PROJECT_NOT_FOUND
             ELSE IF ~projects[pid].is_active THEN r.resp.detail = PROJECT_INACTIVE
             ELSE IF ~can_create_issue(db, u, pid, parse_optional_int(t))
             THEN r.resp.status = 403
             ELSE par = "9" => r.resp.detail = PARENT_NOT_FOUND
    /\ \A u \in UserIds : \A i \in Ids : \A par \in {NoneStr, "9"} :
          LET r == update_story(db, UpdateReq(u, i, NoneStr, "Done", par, NoneStr))
          IN IF i \notin DOMAIN stories THEN r.resp.detail = STORY_NOT_FOUND
             ELSE IF ~projects[stories[i].project_id].is_active
             THEN r.resp.detail = PROJECT_INACTIVE
             ELSE IF ~can_update_issue(db, u, stories[i])
             THEN r.resp.detail = NO_PERMISSION_EDIT
             ELSE par = "9" => r.resp.detail = PARENT_NOT_FOUND
    /\ \A u \in UserIds : \A i \in Ids :
          LET r == delete_user_story(db, [user |-> u, id |-> i])
          IN IF i \notin DOMAIN stories THEN r.resp.detail = STORY_NOT_FOUND
             ELSE ~projects[stories[i].project_id].is_active
                     => r.resp.detail = PROJECT_INACTIVE
    /\ \A u \in UserIds : \A i \in Ids :
          LET r == get_story_by_id(db, [user |-> u, id |-> i])
          IN IF i \notin DOMAIN stories THEN r.resp.detail = STORY_NOT_FOUND
             ELSE ~can_view_issue(db, u, stories[i]) => r.resp.detail = ACCESS_DENIED

\* the numbers that follow "PREFIX-" in the stored codes made of the prefix,
\* a dash and digits only
NumericSuffixes(st, prefix) ==
    {DigitsToInt(SubSeq(st[i].story_pointer, Len(prefix) + 2, Len(st[i].story_pointer))) :
        i \in {j \in DOMAIN st :
                 /\ Len(st[j].story_pointer) > Len(prefix) + 1
                 /\ SubSeq(st[j].story_pointer, 1, Len(prefix) + 1) = prefix \o <<"-">>
                 /\ \A k \in (Len(prefix) + 2)..Len(st[j].story_pointer) :
                       IsDigit(st[j].story_pointer[k])}}

\* the project table with the prefix of project 2 configured, or left empty
PrefixVariants ==
    {projects, [projects EXCEPT ![2].project_prefix = <<>>],
     [projects EXCEPT ![2].project_prefix = <<"O", "P", "S">>]}

(***************************************************************************)
(* C29.  The next code of a project is PREFIX-N: PREFIX is the configured  *)
(* prefix, or the first two characters of the name in upper case when      *)
(* none is configured; N is one more than the largest numeric suffix of    *)
(* the stored codes with this prefix, in whatever project (0 without       *)
(* one), codes with another suffix being ignored; N is written with at     *)
(* least four digits, padded with zeros.  In an empty ENG project the      *)
(* first two items get ENG-0001 and ENG-0002.                              *)
(***************************************************************************)
C29_NextCode ==
    /\ \A pj \in PrefixVariants : \A pid \in DOMAIN pj :
          LET prefix == IF pj[pid].project_prefix # <<>> THEN pj[pid].project_prefix
                        ELSE Upper(SubSeq(pj[pid].name, 1, 2))
              S == NumericSuffixes(stories, prefix) \cup {0}
              N == 1 + CHOOSE m \in S : \A x \in S : x <= m
              code == generate_story_code(stories, pj, pid)
              digits == SubSeq(code, Len(prefix) + 2, Len(code))
          IN /\ SubSeq(code, 1, Len(prefix) + 1) = prefix \o <<"-">>
             /\ Len(digits) >= 4
             /\ \A k \in 1..Len(digits) : IsDigit(digits[k])
             /\ DigitsToInt(digits) = N
    /\ stories = <<>> =>
          LET first == create_user_story(db, CreateReq(1, 1, NoneStr, NoneStr, NoneStr,
                                                       "Epic", "To Do"))
              second == create_user_story(first.db, CreateReq(1, 1, NoneStr, NoneStr,
                                             FormDigits[first.id], "Story", "To Do"))
          IN /\ first.db.stories[first.id].story_pointer = Code(ENG, <<"0", "0", "0", "1">>)
             /\ second.db.stories[second.id].story_pointer = Code(ENG, <<"0", "0", "0", "2">>)

\* the two projects share the prefix: a create in project 2 got ENG-0002
\* after ENG-0001 of project 1, next to a code whose suffix is not a number
C29_Witness ==
    /\ last.op = "create" /\ last.status = 200
    /\ \E i, j, k \in DOMAIN stories :
          /\ stories[i].project_id = 1
          /\ stories[i].story_pointer = Code(ENG, <<"0", "0", "0", "1">>)
          /\ stories[j].story_pointer = Code(ENG, <<"a", "b", "c">>)
          /\ stories[k].project_id = 2 /\ k > j
          /\ stories[k].story_pointer = Code(ENG, <<"0", "0", "0", "2">>)

====
